---- MODULE Spec2Model ----
(***************************************************************************)
(* Model of src/app.py: the P&L engine compute_pnl and the sensitivity     *)
(* sweep that re-evaluates it on a 3x3 grid of perturbed parameter sets.   *)
(*                                                                         *)
(* Numbers are exact rationals <<n, d>> in lowest terms with d > 0.  The   *)
(* binary64 rounding of Python floats is not represented: every            *)
(* arithmetic operator below returns the exact real result.                *)
(***************************************************************************)
EXTENDS Integers, Sequences, FiniteSets, TLC

(***************************************************************************)
(* Bounds of the model.                                                    *)
(***************************************************************************)
MaxVol == 2

(***************************************************************************)
(* Exact rational arithmetic (the numeric operators of the Python code).   *)
(***************************************************************************)
AbsInt(n) == IF n < 0 THEN -n ELSE n

RECURSIVE GCD(_, _)
GCD(a, b) == IF b = 0 THEN a ELSE GCD(b, a % b)

Norm(n, d) ==
    LET s == IF d < 0 THEN -1 ELSE 1
        g == GCD(AbsInt(n), AbsInt(d))
    IN  <<(s * n) \div g, (s * d) \div g>>

Rat(n, d) == Norm(n, d)
Num(n) == <<n, 1>>
Zero == <<0, 1>>
One == <<1, 1>>

\* Python's None
None == <<>>
\* marker for a division whose denominator is zero (ZeroDivisionError)
ZeroDivisionError == <<0, 0>>

Add(a, b) == Norm(a[1] * b[2] + b[1] * a[2], a[2] * b[2])
Sub(a, b) == Norm(a[1] * b[2] - b[1] * a[2], a[2] * b[2])
Mul(a, b) == Norm(a[1] * b[1], a[2] * b[2])
TrueDiv(a, b) == IF b[1] = 0 THEN ZeroDivisionError ELSE Norm(a[1] * b[2], a[2] * b[1])
Lt(a, b) == a[1] * b[2] < b[1] * a[2]
Gt(a, b) == Lt(b, a)
Le(a, b) == ~Lt(b, a)
Ge(a, b) == ~Lt(a, b)
Abs(a) == <<AbsInt(a[1]), a[2]>>
\* max(a, b) of Python: the first argument is kept unless the second is larger
Max(a, b) == IF Gt(b, a) THEN b ELSE a
\* truth value of an optional number: None and 0 are falsy
Truthy(x) == x # None /\ x # Zero

(***************************************************************************)
(* Formatting helpers.  The rendered string is represented by what it      *)
(* shows: a sign and the integer obtained by ".0f" (round half to even).   *)
(***************************************************************************)
RoundHalfEven(a) ==
    LET q == a[1] \div a[2]
        rem == a[1] % a[2]
    IN  IF 2 * rem < a[2] THEN q
        ELSE IF 2 * rem > a[2] THEN q + 1
        ELSE IF q % 2 = 0 THEN q ELSE q + 1

fmt_eur(x) == [minus |-> Lt(x, Zero), digits |-> RoundHalfEven(Abs(x))]

fmt_eur_signed(x) ==
    LET f == fmt_eur(Abs(x))
    IN  [minus |-> Lt(x, Zero), digits |-> f.digits]

(***************************************************************************)
(* Parameter sets: the dictionary with the 22 keys that compute_pnl reads. *)
(***************************************************************************)
\* values the widgets of the page deliver (all within their declared ranges)
FieldValues ==
    [ days_open_per_week   |-> {Num(2)},
      weeks_per_month      |-> {Rat(3, 2)},
      menus_per_day        |-> {Num(n) : n \in 0..MaxVol},
      cafe_tickets_per_day |-> {Num(0), Num(1)},
      shop_tickets_per_day |-> {Num(n) : n \in 0..MaxVol},
      menu_price           |-> {Num(2)},
      cafe_ticket          |-> {Num(2)},
      shop_ticket          |-> {Num(1)},
      menu_food_cost_unit  |-> {Num(1), Num(3)},
      cafe_food_cost_pct   |-> {Rat(1, 2)},
      shop_food_cost_pct   |-> {Rat(1, 4), Num(1)},
      cook_gross_salary    |-> {Num(0), Num(2)},
      partner_gross_salary |-> {Num(0)},
      ss_factor            |-> {Num(1), Rat(3, 2)},
      partner_cash_extra   |-> {Num(0), Num(1)},
      other_labor_cost     |-> {Num(0)},
      rent                 |-> {Num(0), Num(1)},
      utilities            |-> {Num(0)},
      insurance            |-> {Num(0)},
      accounting           |-> {Num(0)},
      tpv_reservations     |-> {Num(0)},
      fixed_overheads      |-> {Num(0)} ]

\* the parameter sets the page can pack from its widgets
ParamSets ==
    [ days_open_per_week   : FieldValues.days_open_per_week,
      weeks_per_month      : FieldValues.weeks_per_month,
      menus_per_day        : FieldValues.menus_per_day,
      cafe_tickets_per_day : FieldValues.cafe_tickets_per_day,
      shop_tickets_per_day : FieldValues.shop_tickets_per_day,
      menu_price           : FieldValues.menu_price,
      cafe_ticket          : FieldValues.cafe_ticket,
      shop_ticket          : FieldValues.shop_ticket,
      menu_food_cost_unit  : FieldValues.menu_food_cost_unit,
      cafe_food_cost_pct   : FieldValues.cafe_food_cost_pct,
      shop_food_cost_pct   : FieldValues.shop_food_cost_pct,
      cook_gross_salary    : FieldValues.cook_gross_salary,
      partner_gross_salary : FieldValues.partner_gross_salary,
      ss_factor            : FieldValues.ss_factor,
      partner_cash_extra   : FieldValues.partner_cash_extra,
      other_labor_cost     : FieldValues.other_labor_cost,
      rent                 : FieldValues.rent,
      utilities            : FieldValues.utilities,
      insurance            : FieldValues.insurance,
      accounting           : FieldValues.accounting,
      tpv_reservations     : FieldValues.tpv_reservations,
      fixed_overheads      : FieldValues.fixed_overheads ]

\* the arguments of a direct call of compute_pnl: the values above and
\* values outside the widgets' ranges (closed days, negative volumes and
\* costs, a percentage above 1, ss_factor below 1)
ArgumentSets ==
    [ days_open_per_week   : FieldValues.days_open_per_week \cup {Num(0)},
      weeks_per_month      : FieldValues.weeks_per_month,
      menus_per_day        : FieldValues.menus_per_day \cup {Num(-1)},
      cafe_tickets_per_day : FieldValues.cafe_tickets_per_day,
      shop_tickets_per_day : FieldValues.shop_tickets_per_day \cup {Num(-1)},
      menu_price           : FieldValues.menu_price,
      cafe_ticket          : FieldValues.cafe_ticket,
      shop_ticket          : FieldValues.shop_ticket,
      menu_food_cost_unit  : FieldValues.menu_food_cost_unit,
      cafe_food_cost_pct   : FieldValues.cafe_food_cost_pct,
      shop_food_cost_pct   : FieldValues.shop_food_cost_pct \cup {Rat(3, 2)},
      cook_gross_salary    : FieldValues.cook_gross_salary,
      partner_gross_salary : FieldValues.partner_gross_salary,
      ss_factor            : FieldValues.ss_factor \cup {Rat(1, 2)},
      partner_cash_extra   : FieldValues.partner_cash_extra,
      other_labor_cost     : FieldValues.other_labor_cost,
      rent                 : FieldValues.rent \cup {Num(-3)},
      utilities            : FieldValues.utilities,
      insurance            : FieldValues.insurance,
      accounting           : FieldValues.accounting,
      tpv_reservations     : FieldValues.tpv_reservations,
      fixed_overheads      : FieldValues.fixed_overheads ]

Fields == { "days_open_per_week", "weeks_per_month", "menus_per_day",
            "cafe_tickets_per_day", "shop_tickets_per_day", "menu_price",
            "cafe_ticket", "shop_ticket", "menu_food_cost_unit",
            "cafe_food_cost_pct", "shop_food_cost_pct", "cook_gross_salary",
            "partner_gross_salary", "ss_factor", "partner_cash_extra",
            "other_labor_cost", "rent", "utilities", "insurance",
            "accounting", "tpv_reservations", "fixed_overheads" }

(***************************************************************************)
(* compute_pnl, line by line.                                              *)
(***************************************************************************)
OpenDays(p) == Mul(p.days_open_per_week, p.weeks_per_month)

RevMenu(p) == Mul(Mul(p.menus_per_day, p.menu_price), OpenDays(p))
RevCafe(p) == Mul(Mul(p.cafe_tickets_per_day, p.cafe_ticket), OpenDays(p))
RevShop(p) == Mul(Mul(p.shop_tickets_per_day, p.shop_ticket), OpenDays(p))
TotalRevenue(p) == Add(Add(RevMenu(p), RevCafe(p)), RevShop(p))

\* slip: the menu margin is taken for the menu food cost
FoodMenu_Mut(p) ==
    Sub(RevMenu(p), Mul(Mul(p.menus_per_day, p.menu_food_cost_unit), OpenDays(p)))
FoodMenu(p) == Mul(Mul(p.menus_per_day, p.menu_food_cost_unit), OpenDays(p))
FoodCafe(p) == Mul(RevCafe(p), p.cafe_food_cost_pct)
FoodShop(p) == Mul(RevShop(p), p.shop_food_cost_pct)
TotalFoodCost(p) == Add(Add(FoodMenu(p), FoodCafe(p)), FoodShop(p))

GrossSalaries(p) == Add(p.cook_gross_salary, p.partner_gross_salary)
LaborSs(p) == Mul(GrossSalaries(p), Sub(p.ss_factor, One))
\* slip: ss_factor applied to the whole labor sum
LaborTotal_Mut(p) ==
    Mul(Add(Add(GrossSalaries(p), p.partner_cash_extra), p.other_labor_cost), p.ss_factor)
LaborTotal(p) ==
    Add(Add(Add(GrossSalaries(p), LaborSs(p)), p.partner_cash_extra), p.other_labor_cost)

FixedCostTotal(p) ==
    Add(Add(Add(Add(Add(p.rent, p.utilities), p.insurance), p.accounting),
            p.tpv_reservations), p.fixed_overheads)

GrossProfit(p) == Sub(TotalRevenue(p), TotalFoodCost(p))

\* the conditions of the three conditional expressions of lines 57, 60, 61
\* slips: a non-strict or a non-zero test in place of the strict one
MarginGuard_Mut(total_revenue) == Ge(total_revenue, Zero)
MarginGuard(total_revenue) == Gt(total_revenue, Zero)
BreakEvenGuard_Mut(gross_margin_pct) == gross_margin_pct # Zero
BreakEvenGuard(gross_margin_pct) == Gt(gross_margin_pct, Zero)
SafetyGuard(break_even_sales) == Truthy(break_even_sales) /\ Gt(break_even_sales, Zero)

\* slip: only a zero revenue is excluded
GrossMarginPct_Mut(gross_profit, total_revenue) ==
    IF total_revenue # Zero THEN TrueDiv(gross_profit, total_revenue) ELSE Zero

GrossMarginPct(gross_profit, total_revenue) ==
    IF MarginGuard(total_revenue) THEN TrueDiv(gross_profit, total_revenue) ELSE Zero

\* slip: fixed costs left out of the result
Ebitda_Mut(gross_profit, labor_total, fixed_cost_total) ==
    Sub(gross_profit, labor_total)

Ebitda(gross_profit, labor_total, fixed_cost_total) ==
    Sub(Sub(gross_profit, labor_total), fixed_cost_total)

\* slip: fixed costs left out of the break-even point
BreakEvenSales_Mut(labor_total, fixed_cost_total, gross_margin_pct) ==
    IF BreakEvenGuard(gross_margin_pct)
    THEN TrueDiv(labor_total, gross_margin_pct)
    ELSE None

BreakEvenSales(labor_total, fixed_cost_total, gross_margin_pct) ==
    IF BreakEvenGuard(gross_margin_pct)
    THEN TrueDiv(Add(labor_total, fixed_cost_total), gross_margin_pct)
    ELSE None

\* slip: the ratio is taken whenever break_even_sales is not None
SafetyRatio_Mut(total_revenue, break_even_sales) ==
    IF break_even_sales # None THEN TrueDiv(total_revenue, break_even_sales) ELSE None

SafetyRatio(total_revenue, break_even_sales) ==
    IF SafetyGuard(break_even_sales) THEN TrueDiv(total_revenue, break_even_sales) ELSE None

\* outcome of a call that stopped with an unhandled ZeroDivisionError
Raised == [raised |-> TRUE]

ComputePnl(p) ==
    LET total_revenue == TotalRevenue(p)
        labor_total == LaborTotal(p)
        fixed_cost_total == FixedCostTotal(p)
        gross_profit == GrossProfit(p)
        gross_margin_pct == GrossMarginPct(gross_profit, total_revenue)
    IN  IF gross_margin_pct = ZeroDivisionError THEN Raised
        ELSE
        LET ebitda == Ebitda(gross_profit, labor_total, fixed_cost_total)
            break_even_sales == BreakEvenSales(labor_total, fixed_cost_total, gross_margin_pct)
        IN  IF break_even_sales = ZeroDivisionError THEN Raised
            ELSE
            LET safety_ratio == SafetyRatio(total_revenue, break_even_sales)
            IN  IF safety_ratio = ZeroDivisionError THEN Raised
                ELSE [ raised           |-> FALSE,
                       open_days        |-> OpenDays(p),
                       rev_menu         |-> RevMenu(p),
                       rev_cafe         |-> RevCafe(p),
                       rev_shop         |-> RevShop(p),
                       total_revenue    |-> total_revenue,
                       food_menu        |-> FoodMenu(p),
                       food_cafe        |-> FoodCafe(p),
                       food_shop        |-> FoodShop(p),
                       total_food_cost  |-> TotalFoodCost(p),
                       labor_total      |-> labor_total,
                       fixed_cost_total |-> fixed_cost_total,
                       gross_profit     |-> gross_profit,
                       gross_margin_pct |-> gross_margin_pct,
                       ebitda           |-> ebitda,
                       break_even_sales |-> break_even_sales,
                       safety_ratio     |-> safety_ratio ]

\* denominators of the divisions that compute_pnl(p) executes, in order
Divisors(p) ==
    LET total_revenue == TotalRevenue(p)
        d1 == IF MarginGuard(total_revenue) THEN <<total_revenue>> ELSE <<>>
        gross_margin_pct == GrossMarginPct(GrossProfit(p), total_revenue)
    IN  IF gross_margin_pct = ZeroDivisionError THEN d1
        ELSE
        LET d2 == IF BreakEvenGuard(gross_margin_pct) THEN <<gross_margin_pct>> ELSE <<>>
            break_even_sales == BreakEvenSales(LaborTotal(p), FixedCostTotal(p), gross_margin_pct)
        IN  IF break_even_sales = ZeroDivisionError THEN d1 \o d2
            ELSE d1 \o d2 \o
                 (IF SafetyGuard(break_even_sales) THEN <<break_even_sales>> ELSE <<>>)

(***************************************************************************)
(* The script: one run packs the widgets into params, evaluates            *)
(* compute_pnl once, and then walks the 3x3 sensitivity grid.              *)
(***************************************************************************)
VARIABLES params, results, pc, cell, local_params, r, sens_rows

vars == <<params, results, pc, cell, local_params, r, sens_rows>>

\* the two delta lists of the nested loops
Grid == <<-2, 0, 2>>
NumCells == Len(Grid) * Len(Grid)
\* deltas of the k-th iteration (k = 1..NumCells) of the nested loops
DeltaMenus(k) == Grid[((k - 1) \div Len(Grid)) + 1]
DeltaShop(k) == Grid[((k - 1) % Len(Grid)) + 1]

\* value of a loop variable that has not been bound yet
Unbound == [unbound |-> TRUE]

\* slip: no floor at zero
LocalParams_Mut(base, delta_menus, delta_shop) ==
    [base EXCEPT
        !.menus_per_day = Add(base.menus_per_day, Num(delta_menus)),
        !.shop_tickets_per_day = Add(base.shop_tickets_per_day, Num(delta_shop))]

\* params.copy() followed by the two item assignments
LocalParams(base, delta_menus, delta_shop) ==
    [base EXCEPT
        !.menus_per_day = Max(Zero, Add(base.menus_per_day, Num(delta_menus))),
        !.shop_tickets_per_day = Max(Zero, Add(base.shop_tickets_per_day, Num(delta_shop)))]

SensRow(delta_menus, delta_shop, res) ==
    [ delta_menus |-> delta_menus,
      delta_shop  |-> delta_shop,
      ingresos    |-> fmt_eur(res.total_revenue),
      ebitda      |-> fmt_eur_signed(res.ebitda) ]

\* start of a script run on the widget values p, up to the sweep loop
StartRun(p) ==
    /\ params' = p
    /\ results' = ComputePnl(p)
    /\ pc' = IF ComputePnl(p).raised THEN "crashed" ELSE "sweep"
    /\ cell' = 0
    /\ local_params' = Unbound
    /\ r' = Unbound
    /\ sens_rows' = <<>>

Init ==
    /\ params \in ParamSets
    /\ results = ComputePnl(params)
    /\ pc = IF ComputePnl(params).raised THEN "crashed" ELSE "sweep"
    /\ cell = 0
    /\ local_params = Unbound
    /\ r = Unbound
    /\ sens_rows = <<>>

\* slip: local_params = params without .copy(), so that the two item
\* assignments write into the base dictionary
SweepCell_Mut ==
    /\ pc = "sweep"
    /\ cell < NumCells
    /\ LET k == cell + 1
           lp == LocalParams(params, DeltaMenus(k), DeltaShop(k))
           res == ComputePnl(lp)
       IN  /\ local_params' = lp
           /\ params' = lp
           /\ r' = res
           /\ cell' = k
           /\ IF res.raised
              THEN /\ pc' = "crashed"
                   /\ sens_rows' = sens_rows
              ELSE /\ pc' = IF k = NumCells THEN "done" ELSE "sweep"
                   /\ sens_rows' = Append(sens_rows, SensRow(DeltaMenus(k), DeltaShop(k), res))
    /\ UNCHANGED results

\* one iteration of the nested loops
SweepCell ==
    /\ pc = "sweep"
    /\ cell < NumCells
    /\ LET k == cell + 1
           lp == LocalParams(params, DeltaMenus(k), DeltaShop(k))
           res == ComputePnl(lp)
       IN  /\ local_params' = lp
           /\ r' = res
           /\ cell' = k
           /\ IF res.raised
              THEN /\ pc' = "crashed"
                   /\ sens_rows' = sens_rows
              ELSE /\ pc' = IF k = NumCells THEN "done" ELSE "sweep"
                   /\ sens_rows' = Append(sens_rows, SensRow(DeltaMenus(k), DeltaShop(k), res))
    /\ UNCHANGED <<params, results>>

\* the user changes one widget and the script runs again from the top
Rerun ==
    /\ pc = "done"
    /\ \E f \in Fields :
         \E v \in FieldValues[f] :
            /\ v # params[f]
            /\ StartRun([params EXCEPT ![f] = v])

Next == SweepCell \/ Rerun

Spec == Init /\ [][Next]_vars

(***************************************************************************)
(* compute_pnl called on its own, on any argument.                         *)
(***************************************************************************)
InitCall ==
    /\ params \in ArgumentSets
    /\ results = Unbound
    /\ pc = "call"
    /\ cell = 0
    /\ local_params = Unbound
    /\ r = Unbound
    /\ sens_rows = <<>>

Call ==
    /\ pc = "call"
    /\ results' = ComputePnl(params)
    /\ pc' = IF ComputePnl(params).raised THEN "crashed" ELSE "returned"
    /\ UNCHANGED <<params, cell, local_params, r, sens_rows>>

NextCall == Call

SpecCall == InitCall /\ [][NextCall]_vars

(***************************************************************************)
(* Properties.                                                             *)
(***************************************************************************)
\* the evaluations of compute_pnl held by the current state, as
\* <<parameter set, result>> pairs
Evaluated ==
    (IF results # Unbound THEN {<<params, results>>} ELSE {})
        \cup (IF r # Unbound THEN {<<local_params, r>>} ELSE {})

NonNegative(p) == \A f \in Fields : Ge(p[f], Zero)

\* C1: break_even_sales is defined exactly when gross_margin_pct > 0, and is
\* then (labor_total + fixed_cost_total) / gross_margin_pct; it is undefined
\* when total_revenue = 0 and when total_food_cost >= total_revenue > 0.
C1_BreakEvenDefinedIffMarginPositive ==
    \A e \in Evaluated :
        LET res == e[2]
        IN  /\ ~res.raised
            /\ (res.break_even_sales # None) <=> Gt(res.gross_margin_pct, Zero)
            /\ res.break_even_sales # None =>
                   res.break_even_sales =
                       TrueDiv(Add(res.labor_total, res.fixed_cost_total), res.gross_margin_pct)
            /\ res.total_revenue = Zero => res.break_even_sales = None
            /\ (Gt(res.total_revenue, Zero) /\ Ge(res.total_food_cost, res.total_revenue))
                   => res.break_even_sales = None

\* a run whose margin is exactly zero on positive revenue, so that the
\* break-even point is undefined
C1_Witness ==
    /\ pc = "returned"
    /\ ~results.raised
    /\ Gt(results.total_revenue, Zero)
    /\ results.total_food_cost = results.total_revenue
    /\ results.gross_margin_pct = Zero
    /\ results.break_even_sales = None

\* C2: safety_ratio is defined exactly when break_even_sales is defined and
\* strictly positive, and is then total_revenue / break_even_sales; a
\* break_even_sales that is defined but <= 0 stays in the result.
C2_SafetyDefinedIffBreakEvenPositive ==
    \A e \in Evaluated :
        LET res == e[2]
            positive == res.break_even_sales # None /\ Gt(res.break_even_sales, Zero)
        IN  /\ ~res.raised
            /\ (res.safety_ratio # None) <=> positive
            /\ positive =>
                   Mul(res.safety_ratio, res.break_even_sales) = res.total_revenue
            /\ (Gt(res.gross_margin_pct, Zero) /\ ~positive) =>
                   /\ res.break_even_sales # None
                   /\ Le(res.break_even_sales, Zero)
                   /\ res.safety_ratio = None

\* a run with positive margin and no labor or fixed cost: break-even is 0
C2_Witness ==
    /\ pc = "returned"
    /\ ~results.raised
    /\ Gt(results.gross_margin_pct, Zero)
    /\ results.break_even_sales = Zero
    /\ results.safety_ratio = None

\* C3: compute_pnl never raises, and every division it executes has a
\* strictly positive denominator, for in-domain and out-of-domain inputs.
C3_NoDivisionByZero ==
    /\ pc # "crashed"
    /\ \A e \in Evaluated :
           /\ ~e[2].raised
           /\ \A i \in 1..Len(Divisors(e[1])) : Gt(Divisors(e[1])[i], Zero)

\* a returned call on an out-of-domain argument (negative volume,
\* ss_factor < 1, percentage > 1) with negative revenue: no division made
C3_Witness ==
    /\ pc = "returned"
    /\ Lt(params.menus_per_day, Zero)
    /\ Lt(params.ss_factor, One)
    /\ Gt(params.shop_food_cost_pct, One)
    /\ Lt(results.total_revenue, Zero)
    /\ ~results.raised
    /\ Len(Divisors(params)) = 0

\* C4: gross_margin_pct is gross_profit / total_revenue when
\* total_revenue > 0 and exactly 0 when total_revenue <= 0.
C4_GrossMargin ==
    \A e \in Evaluated :
        LET res == e[2]
        IN  /\ ~res.raised
            /\ Gt(res.total_revenue, Zero) =>
                   Mul(res.gross_margin_pct, res.total_revenue) = res.gross_profit
            /\ Le(res.total_revenue, Zero) => res.gross_margin_pct = Zero

\* a run with negative revenue and a non-zero gross profit
C4_Witness ==
    /\ pc = "returned"
    /\ ~results.raised
    /\ Lt(results.total_revenue, Zero)
    /\ results.gross_profit # Zero
    /\ results.gross_margin_pct = Zero

\* C5: labor_total equals (cook_gross_salary + partner_gross_salary) *
\* ss_factor + partner_cash_extra + other_labor_cost.
C5_LaborTotal ==
    \A e \in Evaluated :
        LET p == e[1]
            res == e[2]
        IN  /\ ~res.raised
            /\ res.labor_total =
                   Add(Add(Mul(Add(p.cook_gross_salary, p.partner_gross_salary), p.ss_factor),
                           p.partner_cash_extra),
                       p.other_labor_cost)

\* a run with salaries, a loading factor other than 1 and a cash extra
C5_Witness ==
    /\ pc = "returned"
    /\ ~results.raised
    /\ Gt(params.cook_gross_salary, Zero)
    /\ Gt(params.ss_factor, One)
    /\ Gt(params.partner_cash_extra, Zero)
    /\ results.labor_total = Num(4)

\* C6: every sweep cell evaluates menus_per_day = max(0, base + delta_menus)
\* and shop_tickets_per_day = max(0, base + delta_shop), never a negative.
C6_SweepFloor ==
    cell > 0 =>
        LET menus == Add(params.menus_per_day, Num(DeltaMenus(cell)))
            shop == Add(params.shop_tickets_per_day, Num(DeltaShop(cell)))
        IN  /\ Ge(local_params.menus_per_day, Zero)
            /\ Ge(local_params.shop_tickets_per_day, Zero)
            /\ local_params.menus_per_day = (IF Lt(menus, Zero) THEN Zero ELSE menus)
            /\ local_params.shop_tickets_per_day = (IF Lt(shop, Zero) THEN Zero ELSE shop)

\* the cell (-2, -2) on a base with shop_tickets_per_day = 1
C6_Witness ==
    /\ cell = 1
    /\ params.shop_tickets_per_day = Num(1)
    /\ params.menus_per_day = Num(2)
    /\ local_params.shop_tickets_per_day = Zero
    /\ local_params.menus_per_day = Zero

\* C7: a sweep step leaves the base parameter set as it was, gives the cell
\* a parameter set that differs from the base in at most the two swept
\* fields, and evaluates the base values perturbed by the cell's own deltas.
C7_BaseUnchanged ==
    [][pc = "sweep" =>
          /\ params' = params
          /\ results' = results
          /\ \A f \in Fields \ {"menus_per_day", "shop_tickets_per_day"} :
                 local_params'[f] = params[f]
          /\ r' = ComputePnl(
                    [params EXCEPT
                        !.menus_per_day =
                            Max(Zero, Add(params.menus_per_day, Num(DeltaMenus(cell')))),
                        !.shop_tickets_per_day =
                            Max(Zero, Add(params.shop_tickets_per_day, Num(DeltaShop(cell'))))])
      ]_vars

\* a finished sweep: nine rows, the last cell perturbed, and the main result
\* still the evaluation of the base
C7_Witness ==
    /\ pc = "done"
    /\ cell = NumCells
    /\ Len(sens_rows) = NumCells
    /\ local_params # params
    /\ r # results
    /\ results = ComputePnl(params)

\* C8: on non-negative parameter sets, a larger menus_per_day with all else
\* equal gives a total_revenue and a total_food_cost that are not smaller.
C8_MenusMonotone ==
    (pc = "returned" /\ NonNegative(params)) =>
        \A m \in FieldValues.menus_per_day :
            Gt(m, params.menus_per_day) =>
                LET more == ComputePnl([params EXCEPT !.menus_per_day = m])
                IN  /\ ~results.raised
                    /\ ~more.raised
                    /\ Ge(more.total_revenue, results.total_revenue)
                    /\ Ge(more.total_food_cost, results.total_food_cost)

\* a non-negative run for which more menus give strictly more revenue
C8_Witness ==
    /\ pc = "returned"
    /\ NonNegative(params)
    /\ params.menus_per_day = Zero
    /\ Gt(ComputePnl([params EXCEPT !.menus_per_day = Num(MaxVol)]).total_revenue,
          results.total_revenue)
    /\ Gt(ComputePnl([params EXCEPT !.menus_per_day = Num(MaxVol)]).total_food_cost,
          results.total_food_cost)

\* the parameter set p with its three daily volumes multiplied by k
ScaleVolumes(p, k) ==
    [p EXCEPT !.menus_per_day = Mul(p.menus_per_day, k),
              !.cafe_tickets_per_day = Mul(p.cafe_tickets_per_day, k),
              !.shop_tickets_per_day = Mul(p.shop_tickets_per_day, k)]

\* C9: a defined break_even_sales S satisfies gross_margin_pct * S -
\* (labor_total + fixed_cost_total) = 0, and compute_pnl on the parameter
\* set with volumes scaled to total_revenue = S yields ebitda = 0.
C9_BreakEvenConsistency ==
    \A e \in Evaluated :
        LET p == e[1]
            res == e[2]
        IN  /\ ~res.raised
            /\ res.break_even_sales # None =>
                   LET S == res.break_even_sales
                       at == ComputePnl(ScaleVolumes(p, TrueDiv(S, res.total_revenue)))
                   IN  /\ Sub(Mul(res.gross_margin_pct, S),
                              Add(res.labor_total, res.fixed_cost_total)) = Zero
                       /\ ~at.raised
                       /\ at.total_revenue = S
                       /\ at.ebitda = Zero

\* a loss-making run with a positive break-even point above its revenue
C9_Witness ==
    /\ pc = "returned"
    /\ ~results.raised
    /\ results.break_even_sales # None
    /\ Gt(results.break_even_sales, results.total_revenue)
    /\ Lt(results.ebitda, Zero)
    /\ ComputePnl(ScaleVolumes(params,
           TrueDiv(results.break_even_sales, results.total_revenue))).ebitda = Zero

\* C10: a defined safety_ratio is > 1, = 1, < 1 exactly when ebitda is
\* > 0, = 0, < 0.
C10_SafetyRatioSign ==
    \A e \in Evaluated :
        LET res == e[2]
        IN  /\ ~res.raised
            /\ res.safety_ratio # None =>
                   /\ Gt(res.safety_ratio, One) <=> Gt(res.ebitda, Zero)
                   /\ (res.safety_ratio = One) <=> (res.ebitda = Zero)
                   /\ Lt(res.safety_ratio, One) <=> Lt(res.ebitda, Zero)

\* a run exactly at break-even
C10_Witness ==
    /\ pc = "returned"
    /\ ~results.raised
    /\ results.safety_ratio = One
    /\ results.ebitda = Zero
    /\ Gt(results.total_revenue, Zero)

====
